---- MODULE Spec2Model ----
(***************************************************************************)
(* Model of strwdr/multi-agent-chat: the provider handlers (APIHandler and *)
(* its five subclasses), the APIFactory, and the turn loop of              *)
(* DualAgentChatGUI (start_conversation / run_conversation and the other   *)
(* button handlers that touch the agents).                                 *)
(*                                                                         *)
(* Text is modelled as a sequence of tokens, so that an f-string such as   *)
(* f"Error: {msg}" is the concatenation <<"Error:">> \o msg and "starts    *)
(* with Error:" is a real prefix test.                                     *)
(***************************************************************************)
EXTENDS Integers, Sequences, FiniteSets, TLC

(***************************************************************************)
(* Bounds of the model.                                                    *)
(***************************************************************************)
\* largest value entered in the "Maximum Turns" spinbox
MaxTurns == 2
\* number of accepted run requests (background threads ever started)
MaxRuns == 2
\* number of "Apply API Settings" and confirmed "Clear Contexts" clicks
MaxClicks == 1
\* number of get_response calls the threads make, all runs together
MaxCalls == 3
\* longest history on which the handler harness still sends a prompt
MaxHist == 3

(***************************************************************************)
(* Text                                                                    *)
(***************************************************************************)
ErrorPrefix == <<"Error:">>

StartsWith(s, p) == Len(s) >= Len(p) /\ SubSeq(s, 1, Len(p)) = p

StartsWithError(s) == StartsWith(s, ErrorPrefix)

\* Python truthiness of a str / None value: None and "" are modelled as <<>>
Truthy(s) == s # <<>>

Msg(role, content) == [role |-> role, content |-> content]

Event(source, message) == [source |-> source, message |-> message]

(***************************************************************************)
(* Providers                                                               *)
(***************************************************************************)
Providers == {"ollama", "openai", "anthropic", "grok", "gemini"}

Hosted == Providers \ {"ollama"}

\* the source tag each handler's own methods log under
LogName(kind) ==
    CASE kind = "ollama" -> "Ollama"
      [] kind = "openai" -> "OpenAI"
      [] kind = "anthropic" -> "Anthropic"
      [] kind = "grok" -> "Grok"
      [] kind = "gemini" -> "Gemini"

\* self.__class__.__name__, the source tag of the methods of APIHandler
ClassName(kind) ==
    CASE kind = "ollama" -> "OllamaHandler"
      [] kind = "openai" -> "OpenAIHandler"
      [] kind = "anthropic" -> "AnthropicHandler"
      [] kind = "grok" -> "GrokHandler"
      [] kind = "gemini" -> "GeminiHandler"

\* values a key entry / environment variable can hold
Keys == {<<>>, <<"sk-1">>}

\* the exception text str(e) of a failed network call
ExcText == <<"exc">>

(***************************************************************************)
(* APIHandler._show_error: logs "Error: <message>" under source "Error"    *)
(* and then opens a modal message box.  GUILogger.log sets                 *)
(* logger.initialized on its first call, i.e. on the line before the test, *)
(* so the box is always shown when a logger is attached.                   *)
(***************************************************************************)
ShowErrorEvents(message) == <<Event("Error", ErrorPrefix \o message)>>

(***************************************************************************)
(* Handler objects.  client is TRUE when the SDK client object was built.  *)
(***************************************************************************)
BaseHandler(kind) ==
    [kind |-> kind, api_key |-> <<>>, client |-> FALSE,
     selected_model |-> <<>>, system_prompt |-> <<>>,
     conversation_history |-> <<>>]

\* a slot of the object table that holds no live handler
NoHandler == BaseHandler("none")

\* SetApiKey naming the key in its log line
SetApiKeyLogsKey(ag, key, clientOk) ==
    [agent |-> [ag EXCEPT !.api_key = key, !.client = (ag.kind # "grok" /\ clientOk)],
     events |-> <<Event(LogName(ag.kind), <<LogName(ag.kind), "API key set:">> \o key)>>,
     dialog |-> FALSE]

\* set_api_key of the OpenAI / Anthropic / Gemini handlers: clientOk is
\* whether the SDK constructor returned; Grok only stores the key.
SetApiKey(ag, key, clientOk) ==
    IF ag.kind = "grok"
    THEN [agent |-> [ag EXCEPT !.api_key = key],
          events |-> <<Event("Grok", <<"Grok API key set">>)>>,
          dialog |-> FALSE]
    ELSE IF clientOk
    THEN [agent |-> [ag EXCEPT !.api_key = key, !.client = TRUE],
          events |-> <<Event(LogName(ag.kind), <<LogName(ag.kind), "API key set">>)>>,
          dialog |-> FALSE]
    ELSE [agent |-> [ag EXCEPT !.api_key = key],
          events |-> ShowErrorEvents(<<"Invalid", LogName(ag.kind), "API key:">> \o ExcText),
          dialog |-> TRUE]

\* APIFactory.create_handler for a known api_type, with the constructors
\* it calls.  An Ollama handler takes an address and no key.
CreateHandler(kind, key, clientOk) ==
    IF kind = "ollama"
    THEN [agent |-> BaseHandler(kind), events |-> <<>>, dialog |-> FALSE]
    ELSE IF kind = "grok"
    THEN [agent |-> [BaseHandler(kind) EXCEPT !.api_key = key],
          events |-> <<>>, dialog |-> FALSE]
    ELSE IF Truthy(key)
    THEN SetApiKey(BaseHandler(kind), key, clientOk)
    ELSE [agent |-> [BaseHandler(kind) EXCEPT !.api_key = key],
          events |-> <<>>, dialog |-> FALSE]

\* SetModel starting the conversation afresh
SetModelResetsHistory(ag, model_name) ==
    [agent |-> [ag EXCEPT !.selected_model = model_name,
                          !.conversation_history = <<>>],
     events |-> <<Event(ClassName(ag.kind), <<"Selected model:">> \o model_name)>>]

SetModel(ag, model_name) ==
    [agent |-> [ag EXCEPT !.selected_model = model_name],
     events |-> <<Event(ClassName(ag.kind), <<"Selected model:">> \o model_name)>>]

SetSystemPrompt(ag, system_prompt) ==
    [agent |-> [ag EXCEPT !.system_prompt = system_prompt],
     events |-> <<Event(ClassName(ag.kind),
                        <<"Set system prompt for">> \o ag.selected_model)>>]

\* ClearConversationHistory dropping only the latest message
ClearConversationHistoryDropsLast(ag) ==
    [agent |-> [ag EXCEPT !.conversation_history =
                              SubSeq(@, 1, IF Len(@) = 0 THEN 0 ELSE Len(@) - 1)],
     events |-> <<Event(ClassName(ag.kind), <<"Conversation history cleared">>)>>]

ClearConversationHistory(ag) ==
    [agent |-> [ag EXCEPT !.conversation_history = <<>>],
     events |-> <<Event(ClassName(ag.kind), <<"Conversation history cleared">>)>>]

GetConversationLength(ag) == Len(ag.conversation_history)

\* GetConversationHistory with the system entry in front whatever the
\* system prompt is
GetConversationHistoryAlways(ag) ==
    <<Msg("system", ag.system_prompt)>> \o ag.conversation_history

\* get_conversation_history: a new list, the system prompt first when it
\* is not empty
GetConversationHistory(ag) ==
    (IF Truthy(ag.system_prompt) THEN <<Msg("system", ag.system_prompt)>> ELSE <<>>)
    \o ag.conversation_history

(***************************************************************************)
(* get_response, in the three parts its blocking network call divides it   *)
(* into: the precondition checks, the part up to the network call, and     *)
(* the part after it.                                                      *)
(***************************************************************************)
\* does the handler hold the credential its get_response tests for
HasCredential(ag) ==
    CASE ag.kind = "ollama" -> TRUE
      [] ag.kind = "grok" -> Truthy(ag.api_key)
      [] OTHER -> Truthy(ag.api_key) /\ ag.client

\* GetResponseCheck without the test of selected_model
GetResponseCheckNoModelTest(ag) ==
    IF ~HasCredential(ag)
    THEN [ret |-> ErrorPrefix \o <<LogName(ag.kind), "API key not set">>,
          events |-> <<Event("Error", <<"API key not set">>)>>]
    ELSE [ret |-> <<>>, events |-> <<>>]

\* the early returns: ret = <<>> when both checks pass
GetResponseCheck(ag) ==
    IF ~HasCredential(ag)
    THEN [ret |-> ErrorPrefix \o <<LogName(ag.kind), "API key not set">>,
          events |-> <<Event("Error", <<"API key not set">>)>>]
    ELSE IF ~Truthy(ag.selected_model)
    THEN [ret |-> ErrorPrefix \o <<"No model selected">>,
          events |-> <<Event("Error", <<"No model selected">>)>>]
    ELSE [ret |-> <<>>, events |-> <<>>]

\* from the checks to the network call: every handler but Gemini appends
\* the user message before the call
GetResponseSend(ag, prompt) ==
    [agent |-> IF ag.kind = "gemini" THEN ag
               ELSE [ag EXCEPT !.conversation_history =
                                   Append(@, Msg("user", prompt))],
     events |-> <<Event(LogName(ag.kind),
                        <<"Sending prompt to">> \o ag.selected_model)>>]

\* the roles the Anthropic and Gemini handlers copy from the history
Copied(history) == SelectSeq(history, LAMBDA m : m.role \in {"user", "assistant"})

\* an entry of the history in the form the Gemini SDK takes
GeminiEntry(m) ==
    [role |-> IF m.role = "assistant" THEN "model" ELSE "user", parts |-> <<m.content>>]

\* no request: the call returned before it built one
NoRequest == [made |-> FALSE, system |-> <<>>, messages |-> <<>>, message |-> <<>>]

\* BuildRequest leaving the earlier messages out
BuildRequestLatestOnly(ag, prompt) ==
    [made |-> TRUE, system |-> ag.system_prompt, messages |-> <<>>, message |-> prompt]

\* what get_response hands to the provider, from the handler as it is when
\* the checks have passed.  OpenAI, Grok and Ollama send one list messages:
\* the system prompt (when set) as a "system" entry, the history, the
\* prompt as a "user" entry.  Anthropic sends the system prompt as the
\* parameter system ("" when none) and the list without it.  Gemini starts
\* a chat with the converted history, sends the prompt as the message and
\* the system prompt (when set) as system_instruction.
BuildRequest(ag, prompt) ==
    CASE ag.kind = "anthropic" ->
            [made |-> TRUE, system |-> ag.system_prompt,
             messages |-> Copied(ag.conversation_history) \o <<Msg("user", prompt)>>,
             message |-> <<>>]
      [] ag.kind = "gemini" ->
            [made |-> TRUE, system |-> ag.system_prompt,
             messages |-> [i \in 1 .. Len(Copied(ag.conversation_history)) |->
                              GeminiEntry(Copied(ag.conversation_history)[i])],
             message |-> prompt]
      [] OTHER ->
            [made |-> TRUE, system |-> <<>>,
             messages |-> (IF Truthy(ag.system_prompt)
                           THEN <<Msg("system", ag.system_prompt)>> ELSE <<>>)
                          \o ag.conversation_history \o <<Msg("user", prompt)>>,
             message |-> <<>>]

\* NetworkAttempts with the failed call made once more
NetworkAttemptsRetrying(kind, outcome) == IF outcome = "ok" THEN 1 ELSE 2

\* how often a get_response that has passed its checks calls the provider:
\* the one call in its try block (chat.completions.create, messages.create,
\* requests.post, send_message, ollama.chat); the except clause and Grok's
\* status test return without calling again
NetworkAttempts(kind, outcome) == 1

\* what the network call can do: "ok" (a reply), "exc" (any exception),
\* and for Grok's raw HTTP call "status" (a non-200 answer)
Outcomes(kind) == IF kind = "grok" THEN {"ok", "exc", "status"} ELSE {"ok", "exc"}

GrokStatusError == <<"Grok API error:", "500", "-", "body">>

\* GetResponseRecv returning the reply without storing it
GetResponseRecvNoStore(ag, prompt, outcome, reply) ==
    IF outcome = "ok"
    THEN [agent |-> ag, ret |-> reply, events |-> <<>>, dialog |-> FALSE,
          raised |-> FALSE]
    ELSE [agent |-> ag, ret |-> ErrorPrefix \o <<"Could not generate response">>,
          events |-> <<Event("Error", <<"Error generating response:">> \o ExcText)>>,
          dialog |-> TRUE, raised |-> FALSE]

\* GetResponseRecv taking the user message back when the call fails
GetResponseRecvRollback(ag, prompt, outcome, reply) ==
    IF outcome = "ok"
    THEN [agent |-> [ag EXCEPT !.conversation_history =
                        IF ag.kind = "gemini"
                        THEN @ \o <<Msg("user", prompt), Msg("assistant", reply)>>
                        ELSE Append(@, Msg("assistant", reply))],
          ret |-> reply, events |-> <<>>, dialog |-> FALSE, raised |-> FALSE]
    ELSE [agent |-> IF ag.kind = "gemini" THEN ag
                    ELSE [ag EXCEPT !.conversation_history =
                                        SubSeq(@, 1, Len(@) - 1)],
          ret |-> ErrorPrefix \o <<"Could not generate response">>,
          events |-> <<Event("Error", <<"Error generating response:">> \o ExcText)>>,
          dialog |-> TRUE, raised |-> FALSE]

\* GetResponseRecv with an except clause that catches nothing: the
\* exception of the network call leaves get_response
GetResponseRecvRaises(ag, prompt, outcome, reply) ==
    IF outcome = "ok"
    THEN [agent |-> [ag EXCEPT !.conversation_history =
                        IF ag.kind = "gemini"
                        THEN @ \o <<Msg("user", prompt), Msg("assistant", reply)>>
                        ELSE Append(@, Msg("assistant", reply))],
          ret |-> reply, events |-> <<>>, dialog |-> FALSE, raised |-> FALSE]
    ELSE [agent |-> ag, ret |-> ExcText, events |-> <<>>, dialog |-> FALSE,
          raised |-> TRUE]

\* from the network call to the return.  dialog is TRUE when the handler
\* passes through _show_error's message box before it returns; raised is
\* TRUE when an exception leaves get_response (ret is then its text):
\* every handler catches Exception around its network call, so none does.
GetResponseRecv(ag, prompt, outcome, reply) ==
    IF outcome = "ok"
    THEN [agent |-> [ag EXCEPT !.conversation_history =
                        IF ag.kind = "gemini"
                        THEN @ \o <<Msg("user", prompt), Msg("assistant", reply)>>
                        ELSE Append(@, Msg("assistant", reply))],
          ret |-> reply, events |-> <<>>, dialog |-> FALSE, raised |-> FALSE]
    ELSE IF outcome = "status"
    THEN [agent |-> ag, ret |-> ErrorPrefix \o GrokStatusError,
          events |-> <<Event("Error", GrokStatusError)>>, dialog |-> FALSE,
          raised |-> FALSE]
    ELSE [agent |-> ag,
          ret |-> IF ag.kind = "ollama"
                  THEN ErrorPrefix \o <<"Could not generate response">>
                  ELSE ErrorPrefix \o <<"Could not generate response", "-">> \o ExcText,
          events |-> <<Event("Error", <<"Error generating response:">> \o ExcText)>>
                     \o ShowErrorEvents(
                            IF ag.kind = "ollama"
                            THEN <<"Cannot connect to Ollama API">>
                            ELSE <<LogName(ag.kind), "API error:">> \o ExcText),
          dialog |-> TRUE, raised |-> FALSE]

(***************************************************************************)
(* APIFactory.create_handler.  api_type is a string, written here as the   *)
(* sequence of its characters so that str.lower() is a conversion.         *)
(***************************************************************************)
LowerChar(c) ==
    CASE c = "A" -> "a" [] c = "C" -> "c" [] c = "E" -> "e" [] c = "G" -> "g"
      [] c = "H" -> "h" [] c = "I" -> "i" [] c = "K" -> "k" [] c = "L" -> "l"
      [] c = "M" -> "m" [] c = "N" -> "n" [] c = "O" -> "o" [] c = "P" -> "p"
      [] c = "R" -> "r" [] c = "T" -> "t" [] OTHER -> c

\* str.lower()
Lower(s) == [i \in 1 .. Len(s) |-> LowerChar(s[i])]

\* the literal each branch of create_handler compares with
Spelling(kind) ==
    CASE kind = "ollama" -> <<"o", "l", "l", "a", "m", "a">>
      [] kind = "openai" -> <<"o", "p", "e", "n", "a", "i">>
      [] kind = "anthropic" -> <<"a", "n", "t", "h", "r", "o", "p", "i", "c">>
      [] kind = "grok" -> <<"g", "r", "o", "k">>
      [] kind = "gemini" -> <<"g", "e", "m", "i", "n", "i">>

\* create_handler comparing api_type itself, without lower()
CreateHandlerOfTypeExact(api_type, key, clientOk) ==
    IF \E k \in Providers : api_type = Spelling(k)
    THEN LET kind == CHOOSE k \in Providers : api_type = Spelling(k)
             made == CreateHandler(kind, key, clientOk)
         IN  [raised |-> FALSE, error |-> <<>>, agent |-> made.agent,
              events |-> made.events]
    ELSE [raised |-> TRUE, error |-> <<"Unknown API type:">> \o api_type,
          agent |-> NoHandler, events |-> <<>>]

\* create_handler(api_type, logger, api_key=key): the if / elif chain on
\* api_type.lower(), and the ValueError of its else branch
CreateHandlerOfType(api_type, key, clientOk) ==
    IF \E k \in Providers : Lower(api_type) = Spelling(k)
    THEN LET kind == CHOOSE k \in Providers : Lower(api_type) = Spelling(k)
             made == CreateHandler(kind, key, clientOk)
         IN  [raised |-> FALSE, error |-> <<>>, agent |-> made.agent,
              events |-> made.events]
    ELSE [raised |-> TRUE, error |-> <<"Unknown API type:">> \o api_type,
          agent |-> NoHandler, events |-> <<>>]

(***************************************************************************)
(* get_available_models.  outcome is what the discovery request does:      *)
(* "ok" (a non-empty list), "empty", "status" (Ollama: not 200), "conn"    *)
(* (ConnectionError), "exc" (any other exception); "none" when the handler *)
(* makes no request.                                                       *)
(***************************************************************************)
DiscoveredModels == <<<<"m1">>, <<"m2">>>>

AnthropicModels == <<<<"claude-3-opus-20240229">>, <<"claude-3-sonnet-20240229">>,
                     <<"claude-3-haiku-20240307">>>>

GrokModels == <<<<"grok-1">>, <<"grok-2">>>>

GeminiFallback == <<<<"gemini-1.0-pro">>, <<"gemini-1.5-pro">>, <<"gemini-1.5-flash">>>>

\* what OpenAI's models endpoint lists: a listing with chat models in it,
\* and one with none
OpenAIListing == <<<<"gpt-4", "o">>, <<"whisper", "1">>, <<"gpt-3.5", "turbo">>>>

OpenAIOthers == <<<<"whisper", "1">>, <<"dall-e", "3">>>>

\* ChatModels keeping every id of the listing
ChatModelsAll(listing) == listing

\* lines 62-65 of openai_handler.py: the ids that start with "gpt-3.5" or
\* "gpt-4", in the order of the listing
ChatModels(listing) ==
    SelectSeq(listing, LAMBDA id : StartsWith(id, <<"gpt-3.5">>) \/ StartsWith(id, <<"gpt-4">>))

Loaded(kind, n) == <<Event(LogName(kind), <<"Loaded", ToString(n), LogName(kind), "models">>)>>

\* KeyNotSet answering with a fixed catalogue instead
KeyNotSetCatalogue(kind) ==
    [models |-> GrokModels, raised |-> FALSE,
     events |-> Loaded(kind, Len(GrokModels))]

\* the first lines of the hosted handlers' get_available_models, taken
\* when the key (or the client) is missing
KeyNotSet(kind) ==
    [models |-> <<>>, raised |-> FALSE,
     events |-> ShowErrorEvents(<<"API key not set. Please set your", LogName(kind), "API key.">>)]

DiscoveryOutcomes(ag) ==
    CASE ag.kind = "ollama" -> {"ok", "empty", "status", "conn", "exc"}
      [] ag.kind \in {"openai", "gemini"} /\ HasCredential(ag) -> {"ok", "empty", "exc"}
      [] OTHER -> {"none"}

GetAvailableModels(ag, outcome) ==
    CASE ag.kind = "ollama" ->
            IF outcome = "ok"
            THEN [models |-> DiscoveredModels, raised |-> FALSE,
                  events |-> Loaded("ollama", Len(DiscoveredModels))]
            ELSE IF outcome = "empty"
            THEN [models |-> <<>>, raised |-> FALSE, events |-> <<>>]
            ELSE IF outcome \in {"status", "conn"}
            THEN [models |-> <<>>, raised |-> FALSE,
                  events |-> ShowErrorEvents(<<"Cannot connect to Ollama API">>)]
            ELSE [models |-> <<>>, raised |-> TRUE, events |-> <<>>]
      [] ag.kind # "ollama" /\ ~HasCredential(ag) -> KeyNotSet(ag.kind)
      [] ag.kind = "openai" /\ HasCredential(ag) ->
            IF outcome \in {"ok", "empty"}
            THEN LET chat_models == ChatModels(IF outcome = "ok" THEN OpenAIListing
                                               ELSE OpenAIOthers)
                 IN  [models |-> chat_models, raised |-> FALSE,
                      events |-> IF chat_models # <<>>
                                 THEN Loaded("openai", Len(chat_models)) ELSE <<>>]
            ELSE [models |-> <<>>, raised |-> FALSE,
                  events |-> ShowErrorEvents(<<"Error fetching OpenAI models:">> \o ExcText)]
      [] ag.kind = "anthropic" /\ HasCredential(ag) ->
            [models |-> AnthropicModels, raised |-> FALSE,
             events |-> Loaded("anthropic", Len(AnthropicModels))]
      [] ag.kind = "grok" /\ HasCredential(ag) ->
            [models |-> GrokModels, raised |-> FALSE,
             events |-> Loaded("grok", Len(GrokModels))]
      [] ag.kind = "gemini" /\ HasCredential(ag) ->
            IF outcome = "ok"
            THEN [models |-> DiscoveredModels, raised |-> FALSE,
                  events |-> Loaded("gemini", Len(DiscoveredModels))]
            ELSE IF outcome = "empty"
            THEN [models |-> <<>>, raised |-> FALSE, events |-> Loaded("gemini", 0)]
            ELSE [models |-> GeminiFallback, raised |-> FALSE,
                  events |-> ShowErrorEvents(<<"Error fetching Gemini models:">> \o ExcText)
                             \o <<Event("Gemini", <<"Using fallback list of",
                                         ToString(Len(GeminiFallback)), "Gemini models">>)>>]

\* the model the first / second combobox is set to from a non-empty list
Combo1Choice(models) == models[1]

Combo2Choice(models) == IF Len(models) > 1 THEN models[2] ELSE models[1]

(***************************************************************************)
(* State                                                                   *)
(***************************************************************************)
VARIABLES
    agents,                \* the handler objects, by object id
    agent1, agent2,        \* self.agent1 / self.agent2: ids of the current handlers
    api_keys,              \* self.openai_api_key, ...: the stored keys by provider
    model_combo,           \* text shown in the two (read-only) model comboboxes
    conversation_started,  \* self.conversation_started
    stop_conversation,     \* self.stop_conversation
    max_turns,             \* self.max_turns
    current_turn,          \* self.current_turn
    turn_delay,            \* self.turn_delay
    log,                   \* the events in the logger's text widget: for each
                           \* writer (0: the foreground, t: run t's thread) the
                           \* events it wrote, in order
    threads,               \* the run_conversation threads, by run number
    nruns, nclicks,        \* how often the bounded handlers have run
    ncalls,                \* how many get_response calls the threads have begun
    api,                   \* the last call made by the handler harness
    error_box              \* the text of the message box start_conversation has
                           \* open for a missing model selection, <<>> when none

vars == <<agents, agent1, agent2, api_keys, model_combo, conversation_started,
          stop_conversation, max_turns, current_turn, turn_delay, log, threads,
          nruns, nclicks, ncalls, api, error_box>>

orch_vars == <<agent1, agent2, api_keys, model_combo, conversation_started,
               stop_conversation, max_turns, current_turn, turn_delay, threads,
               nruns, nclicks, ncalls, error_box>>

\* ids of the handler objects: two at construction, two more per apply
ObjIds == 1 .. (2 + 2 * MaxClicks)

RunIds == 1 .. MaxRuns

\* who writes to the logger: the foreground (0) and the threads
Writers == {0} \cup RunIds

\* the widget with only the foreground's events in it
Logged(events) == [w \in Writers |-> IF w = 0 THEN events ELSE <<>>]

\* GUILogger.log called by writer w for each of the events
LogBy(w, events) == [log EXCEPT ![w] = @ \o events]

\* a thread that has not been started.  pc, turn, last (the end of the
\* range), initial_prompt, response1 and response2 are the thread's own
\* position and locals, delay is the argument it gave to time.sleep;
\* callee, prompt and outcome describe its call in flight.  The rest is
\* bookkeeping about the run: target is the handler object of its latest
\* call, begun1 / begun2 count the calls begun on
\* self.agent1 / self.agent2, returned counts the calls that returned and
\* last_ret is the text of the latest return, cancelled is where the loop
\* was when a stop was first requested ("delay": in time.sleep, "busy":
\* elsewhere) and at_stop how many of its calls had returned by then,
\* reported is how it ended.
NoThread ==
    [pc |-> "none", turn |-> 0, last |-> 0, initial_prompt |-> <<>>,
     response1 |-> <<>>, response2 |-> <<>>, delay |-> 0, callee |-> 0,
     prompt |-> <<>>, outcome |-> "none", target |-> 0, begun1 |-> 0, begun2 |-> 0,
     returned |-> 0, last_ret |-> <<>>, cancelled |-> "no", at_stop |-> 0,
     reported |-> "none"]

\* what the harness notes of a call: the method, its arguments (prompt for
\* get_response, arg for create_handler), what the network did, the reply
\* the provider gave, and how the call ended: raised, the text returned
\* (ret; the text of the exception when raised), the list returned
\* (models), for clear_conversation_history the result of
\* get_conversation_length before and after it, and for
\* get_conversation_history the list returned (history) and the result of
\* get_conversation_length (length); request is what get_response handed
\* to the provider and attempts how often it called the provider
NoCall == [tick |-> FALSE, op |-> "none", prompt |-> <<>>, arg |-> <<>>,
           outcome |-> "none", reply |-> <<>>, raised |-> FALSE, ret |-> <<>>,
           models |-> <<>>, before |-> 0, length |-> 0, history |-> <<>>,
           request |-> NoRequest, attempts |-> 0]

\* DualAgentChatGUI.__init__ state variables (environment unset)
OrchInit ==
    /\ agent1 = 1
    /\ agent2 = 2
    /\ api_keys = [k \in Hosted |-> <<>>]
    /\ conversation_started = FALSE
    /\ stop_conversation = FALSE
    /\ max_turns = 10
    /\ current_turn = 0
    /\ turn_delay = 2
    /\ threads = [r \in RunIds |-> NoThread]
    /\ nruns = 0
    /\ nclicks = 0
    /\ ncalls = 0
    /\ error_box = <<>>

(***************************************************************************)
(* The handler harness: one handler object of any provider, driven through *)
(* the public methods of APIHandler in any order.  The harness reads the   *)
(* sink after every call, so log holds the events of the last call.        *)
(***************************************************************************)
Prompts == {<<"p1">>, <<"p2">>}

Replies == {<<"r1">>, <<"r2">>}

ModelNames == {<<>>, <<"m1">>}

SystemPrompts == {<<>>, <<"sys">>}

\* the api_type strings handed to the factory: the five kinds, other
\* spellings of them, and strings that name no kind
ApiTypes ==
    {Spelling(k) : k \in Providers}
    \cup {<<"G", "R", "O", "K">>, <<"O", "p", "e", "n", "A", "I">>}
    \cup {<<"l", "l", "a", "m", "a">>, <<>>}

\* the harness has asked the factory for a handler and noted the call;
\* whether the SDK client can be built matters only when a key is given.
\* When the factory raised there is no handler to go on with.
AgentInit ==
    /\ OrchInit
    /\ model_combo = <<<<>>, <<>>>>
    /\ \E api_type \in ApiTypes, key \in Keys :
       \E clientOk \in IF Truthy(key) THEN BOOLEAN ELSE {TRUE} :
       \E made \in {CreateHandlerOfType(api_type, key, clientOk)} :
          /\ agents = [o \in ObjIds |-> IF o = 1 THEN made.agent ELSE NoHandler]
          /\ log = Logged(made.events)
          /\ api = [NoCall EXCEPT !.op = "create_handler", !.arg = api_type,
                                  !.raised = made.raised, !.ret = made.error]

\* the factory returned a handler
HasHandler == agents[1].kind \in Providers

\* the harness notes the call it made: the arguments, what the network did
\* (outcome "none": no network call was made) and the value returned
Noted(call) == api' = [call EXCEPT !.tick = ~api.tick]

Called(op, prompt, outcome, reply, ret) ==
    Noted([NoCall EXCEPT !.op = op, !.prompt = prompt, !.outcome = outcome,
                         !.reply = reply, !.ret = ret])

ApiSetModel ==
    /\ HasHandler
    /\ \E m \in ModelNames :
        LET r == SetModel(agents[1], m) IN
        /\ agents' = [agents EXCEPT ![1] = r.agent]
        /\ log' = Logged(r.events)
        /\ Called("set_model", <<>>, "none", <<>>, <<>>)
        /\ UNCHANGED orch_vars

ApiSetSystemPrompt ==
    /\ HasHandler
    /\ \E s \in SystemPrompts :
        LET r == SetSystemPrompt(agents[1], s) IN
        /\ agents' = [agents EXCEPT ![1] = r.agent]
        /\ log' = Logged(r.events)
        /\ Called("set_system_prompt", <<>>, "none", <<>>, <<>>)
        /\ UNCHANGED orch_vars

ApiSetApiKey ==
    /\ agents[1].kind \in Hosted
    /\ \E key \in Keys, clientOk \in BOOLEAN :
        LET r == SetApiKey(agents[1], key, clientOk) IN
        /\ agents' = [agents EXCEPT ![1] = r.agent]
        /\ log' = Logged(r.events)
        /\ Called("set_api_key", <<>>, "none", <<>>, <<>>)
        /\ UNCHANGED orch_vars

\* clear_conversation_history, with get_conversation_length before and
\* immediately after it
ApiClearHistory ==
    LET r == ClearConversationHistory(agents[1]) IN
    /\ HasHandler
    /\ agents' = [agents EXCEPT ![1] = r.agent]
    /\ log' = Logged(r.events)
    /\ Noted([NoCall EXCEPT !.op = "clear_conversation_history",
                             !.before = GetConversationLength(agents[1]),
                             !.length = GetConversationLength(r.agent)])
    /\ UNCHANGED orch_vars

ApiGetAvailableModels ==
    /\ HasHandler
    /\ \E outcome \in DiscoveryOutcomes(agents[1]) :
        LET r == GetAvailableModels(agents[1], outcome) IN
        /\ log' = Logged(r.events)
        /\ Noted([NoCall EXCEPT !.op = "get_available_models", !.outcome = outcome,
                                 !.raised = r.raised, !.models = r.models,
                                 !.ret = IF r.raised THEN ExcText ELSE <<>>])
        /\ UNCHANGED <<agents, orch_vars>>

\* get_conversation_history and get_conversation_length, one after the other
ApiGetConversationHistory ==
    /\ HasHandler
    /\ log' = Logged(<<>>)
    /\ Noted([NoCall EXCEPT !.op = "get_conversation_history",
                             !.history = GetConversationHistory(agents[1]),
                             !.length = GetConversationLength(agents[1])])
    /\ UNCHANGED <<agents, orch_vars>>

\* one whole get_response call: checks, send, network call, return
GetResponse(ag, prompt, outcome, reply) ==
    LET chk == GetResponseCheck(ag) IN
    IF chk.ret # <<>>
    THEN [agent |-> ag, ret |-> chk.ret, events |-> chk.events, outcome |-> "none",
          raised |-> FALSE, request |-> NoRequest, attempts |-> 0]
    ELSE LET snd == GetResponseSend(ag, prompt)
             rcv == GetResponseRecv(snd.agent, prompt, outcome, reply) IN
         [agent |-> rcv.agent, ret |-> rcv.ret,
          events |-> snd.events \o rcv.events, outcome |-> outcome,
          raised |-> rcv.raised, request |-> BuildRequest(ag, prompt),
          attempts |-> NetworkAttempts(ag.kind, outcome)]

ApiGetResponse ==
    /\ HasHandler
    /\ Len(agents[1].conversation_history) <= MaxHist
    /\ \E prompt \in Prompts, outcome \in Outcomes(agents[1].kind), reply \in Replies :
        LET r == GetResponse(agents[1], prompt, outcome, reply) IN
        /\ agents' = [agents EXCEPT ![1] = r.agent]
        /\ log' = Logged(r.events)
        /\ Noted([NoCall EXCEPT !.op = "get_response", !.prompt = prompt,
                                 !.outcome = r.outcome,
                                 !.reply = IF r.outcome = "ok" THEN reply ELSE <<>>,
                                 !.raised = r.raised, !.ret = r.ret,
                                 !.request = r.request,
                                 !.attempts = r.attempts])
        /\ UNCHANGED orch_vars

AgentNext ==
    \/ ApiSetModel
    \/ ApiSetSystemPrompt
    \/ ApiSetApiKey
    \/ ApiClearHistory
    \/ ApiGetResponse
    \/ ApiGetAvailableModels
    \/ ApiGetConversationHistory

AgentSpec == AgentInit /\ [][AgentNext]_vars

(***************************************************************************)
(* DualAgentChatGUI: construction                                          *)
(***************************************************************************)
\* refresh_models: each discovery in its own try / except
RefreshModels(ag1, ag2, o1, o2, combo) ==
    LET r1 == GetAvailableModels(ag1, o1)
        r2 == GetAvailableModels(ag2, o2)
        e1 == IF r1.raised
              THEN <<Event("Error", <<"Error loading models for Agent 1:">> \o ExcText)>>
              ELSE r1.events
        e2 == IF r2.raised
              THEN <<Event("Error", <<"Error loading models for Agent 2:">> \o ExcText)>>
              ELSE r2.events
    IN  [combo |-> <<IF r1.models # <<>> THEN Combo1Choice(r1.models) ELSE combo[1],
                     IF r2.models # <<>> THEN Combo2Choice(r2.models) ELSE combo[2]>>,
         events |-> e1 \o e2]

\* the state after DualAgentChatGUI.__init__ with the environment unset:
\* two Ollama handlers, and whatever the first model discovery found
Init ==
    /\ OrchInit
    /\ api = NoCall
    /\ agents = [o \in ObjIds |->
                    IF o \in {1, 2} THEN CreateHandler("ollama", <<>>, TRUE).agent
                    ELSE NoHandler]
    /\ \E o1 \in DiscoveryOutcomes(BaseHandler("ollama")),
          o2 \in DiscoveryOutcomes(BaseHandler("ollama")) :
          LET r == RefreshModels(BaseHandler("ollama"), BaseHandler("ollama"),
                                 o1, o2, <<<<>>, <<>>>>) IN
          /\ model_combo = r.combo
          /\ log = Logged(r.events)

(***************************************************************************)
(* The background thread: run_conversation                                 *)
(***************************************************************************)
InitialPrompts == {<<"hello">>}

\* the text the provider answers to the k-th call of run t
ReplyText(t, k) == <<"reply", ToString(t), ToString(k)>>

\* some handler's message box is open: the application is modal
DialogOpen == \E t \in RunIds : threads[t].pc \in {"dlg1", "dlg2"}

\* a handler object stays while self.agent1 / self.agent2 or a call in
\* flight refers to it
Live(ags, a1, a2, thr) ==
    [o \in ObjIds |-> IF o \in {a1, a2} \/ \E t \in RunIds : thr[t].callee = o
                      THEN ags[o] ELSE NoHandler]

\* lines 651-670: the initial prompt is logged and injected into agent 1's
\* history as an assistant message; range(1, max_turns + 1) is evaluated
RunBegin(t) ==
    /\ threads[t].pc = "start"
    /\ \E p \in InitialPrompts :
        /\ agents' = [agents EXCEPT ![agent1].conversation_history =
                                        Append(@, Msg("assistant", p))]
        /\ log' = LogBy(t, <<Event("System",
                              <<"Starting conversation with initial prompt:">> \o p)>>)
        /\ threads' = [threads EXCEPT ![t].pc = "top", ![t].turn = 1,
                                      ![t].last = max_turns,
                                      ![t].initial_prompt = p,
                                      ![t].response2 = p]
    /\ UNCHANGED <<agent1, agent2, api_keys, model_combo, conversation_started,
                   stop_conversation, max_turns, current_turn, turn_delay,
                   nruns, nclicks, ncalls, api, error_box>>

\* thread record th calls handler object o (first = TRUE: the call of line
\* 696 on self.agent1, else the call of line 680 on self.agent2) with
\* prompt; the relayed text is logged first.  The call either returns at
\* once with an error text or reaches its network call.
CallBegin(th, o, ags, first, prompt) ==
    LET ag == ags[o]
        chk == GetResponseCheck(ag)
        relay == <<Event(IF first THEN "agent2" ELSE "agent1", prompt)>>
        counted == IF first THEN [th EXCEPT !.begun1 = @ + 1, !.target = o]
                   ELSE [th EXCEPT !.begun2 = @ + 1, !.target = o]
    IN  IF chk.ret # <<>>
        THEN [thread |-> IF first
                         THEN [counted EXCEPT !.pc = "sleep1", !.response2 = chk.ret,
                                              !.delay = turn_delay, !.prompt = prompt,
                                              !.returned = @ + 1, !.last_ret = chk.ret]
                         ELSE [counted EXCEPT !.pc = "sleep2", !.response1 = chk.ret,
                                              !.delay = turn_delay, !.prompt = prompt,
                                              !.returned = @ + 1, !.last_ret = chk.ret],
              agents |-> ags,
              events |-> relay \o chk.events]
        ELSE LET snd == GetResponseSend(ag, prompt) IN
             [thread |-> [counted EXCEPT !.pc = IF first THEN "net1" ELSE "net2",
                                         !.callee = o, !.prompt = prompt],
              agents |-> [ags EXCEPT ![o] = snd.agent],
              events |-> relay \o snd.events]

\* TurnPublished giving the number of cycles that have finished
TurnPublishedAfter(th) == th.turn - 1

\* line 674: the value the loop stores in self.current_turn at the head of
\* a cycle, which update_turn_counter then shows
TurnPublished(th) == th.turn

\* lines 670-680: the loop head, the stop test, and the call of agent 2
RunTop(t) ==
    /\ threads[t].pc = "top"
    /\ IF threads[t].turn > threads[t].last \/ stop_conversation
       THEN /\ threads' = [threads EXCEPT ![t].pc = "exit"]
            /\ UNCHANGED <<agents, log, current_turn, ncalls>>
       ELSE LET c == CallBegin(threads[t], agent2, agents, FALSE,
                               threads[t].response2) IN
            /\ ncalls < MaxCalls
            /\ ncalls' = ncalls + 1
            /\ current_turn' = TurnPublished(threads[t])
            /\ threads' = [threads EXCEPT ![t] = c.thread]
            /\ agents' = c.agents
            /\ log' = LogBy(t, c.events)
    /\ UNCHANGED <<agent1, agent2, api_keys, model_combo, conversation_started,
                   stop_conversation, max_turns, turn_delay, nruns, nclicks, api, error_box>>

\* a thread that has ended: its locals are gone, what it reported stays
Ended(reported) == [NoThread EXCEPT !.pc = "done", !.reported = reported]

\* Returned with the loop's variable left as it was
ReturnedStale(th, ret) ==
    IF th.pc \in {"net1", "dlg1"}
    THEN [th EXCEPT !.pc = "sleep1", !.callee = 0,
                    !.delay = turn_delay, !.outcome = "none", !.returned = @ + 1, !.last_ret = ret]
    ELSE [th EXCEPT !.pc = "sleep2", !.callee = 0,
                    !.delay = turn_delay, !.outcome = "none", !.returned = @ + 1, !.last_ret = ret]

\* Returned with an error text ending the run as a failure
ReturnedAborts(th, ret) ==
    IF StartsWithError(ret)
    THEN Ended("error")
    ELSE IF th.pc \in {"net1", "dlg1"}
    THEN [th EXCEPT !.pc = "sleep1", !.response2 = ret, !.callee = 0,
                    !.delay = turn_delay, !.outcome = "none", !.returned = @ + 1, !.last_ret = ret]
    ELSE [th EXCEPT !.pc = "sleep2", !.response1 = ret, !.callee = 0,
                    !.delay = turn_delay, !.outcome = "none", !.returned = @ + 1, !.last_ret = ret]

\* the value get_response returns reaches the loop's variable, and the
\* thread enters time.sleep(self.turn_delay)
Returned(th, ret) ==
    IF th.pc \in {"net1", "dlg1"}
    THEN [th EXCEPT !.pc = "sleep1", !.response2 = ret, !.callee = 0,
                    !.delay = turn_delay, !.outcome = "none", !.returned = @ + 1, !.last_ret = ret]
    ELSE [th EXCEPT !.pc = "sleep2", !.response1 = ret, !.callee = 0,
                    !.delay = turn_delay, !.outcome = "none", !.returned = @ + 1, !.last_ret = ret]

\* RunFailed leaving the conversation marked as started
RunFailedStaysStarted(t) ==
    /\ threads' = [threads EXCEPT ![t] = Ended("error")]
    /\ log' = LogBy(t, <<Event("Error", <<"Error in conversation:">> \o ExcText)>>)
    /\ UNCHANGED conversation_started

\* lines 711-714: the except clause of run_conversation
RunFailed(t) ==
    /\ threads' = [threads EXCEPT ![t] = Ended("error")]
    /\ log' = LogBy(t, <<Event("Error", <<"Error in conversation:">> \o ExcText)>>)
    /\ conversation_started' = FALSE

\* the blocking network call of get_response ends; an exception that
\* left get_response would be caught by the except clause of the loop
RunNetwork(t) ==
    /\ threads[t].pc \in {"net1", "net2"}
    /\ LET th == threads[t]
           o == th.callee
           k == th.begun1 + th.begun2
       IN  \E outcome \in Outcomes(agents[o].kind) :
             LET rcv == GetResponseRecv(agents[o], th.prompt, outcome, ReplyText(t, k))
                 after == IF rcv.dialog
                          THEN [th EXCEPT !.pc = IF th.pc = "net1" THEN "dlg1" ELSE "dlg2",
                                          !.outcome = outcome]
                          ELSE Returned(th, rcv.ret)
                 thr == [threads EXCEPT ![t] = IF rcv.raised THEN Ended("error")
                                               ELSE after]
             IN  /\ agents' = Live([agents EXCEPT ![o] = rcv.agent], agent1, agent2, thr)
                 /\ IF rcv.raised
                    THEN RunFailed(t)
                    ELSE /\ threads' = thr
                         /\ log' = LogBy(t, rcv.events)
                         /\ UNCHANGED conversation_started
    /\ UNCHANGED <<agent1, agent2, api_keys, model_combo,
                   stop_conversation, max_turns, current_turn, turn_delay,
                   nruns, nclicks, ncalls, api, error_box>>

\* the user closes _show_error's message box and get_response returns
RunDismiss(t) ==
    /\ threads[t].pc \in {"dlg1", "dlg2"}
    /\ LET th == threads[t]
           ret == GetResponseRecv(agents[th.callee], th.prompt, th.outcome, <<>>).ret
           thr == [threads EXCEPT ![t] = Returned(th, ret)]
       IN  /\ threads' = thr
           /\ agents' = Live(agents, agent1, agent2, thr)
    /\ UNCHANGED <<agent1, agent2, api_keys, model_combo, conversation_started,
                   stop_conversation, max_turns, current_turn, turn_delay, log,
                   nruns, nclicks, ncalls, api, error_box>>

\* lines 688-696: time.sleep ends, by raising ValueError when its argument
\* was negative; then the stop / last-turn test and the call of agent 1
RunSleep2(t) ==
    /\ threads[t].pc = "sleep2"
    /\ IF threads[t].delay < 0
       THEN /\ RunFailed(t)
            /\ UNCHANGED <<agents, ncalls>>
       ELSE IF stop_conversation \/ threads[t].turn = max_turns
       THEN /\ threads' = [threads EXCEPT ![t].pc = "exit"]
            /\ UNCHANGED <<agents, log, conversation_started, ncalls>>
       ELSE LET c == CallBegin(threads[t], agent1, agents, TRUE,
                               threads[t].response1) IN
            /\ ncalls < MaxCalls
            /\ ncalls' = ncalls + 1
            /\ threads' = [threads EXCEPT ![t] = c.thread]
            /\ agents' = c.agents
            /\ log' = LogBy(t, c.events)
            /\ UNCHANGED conversation_started
    /\ UNCHANGED <<agent1, agent2, api_keys, model_combo, stop_conversation,
                   max_turns, current_turn, turn_delay, nruns, nclicks, api, error_box>>

\* line 704 and back to the loop head
RunSleep1(t) ==
    /\ threads[t].pc = "sleep1"
    /\ IF threads[t].delay < 0
       THEN RunFailed(t)
       ELSE /\ threads' = [threads EXCEPT ![t].pc = "top", ![t].turn = @ + 1]
            /\ UNCHANGED <<log, conversation_started>>
    /\ UNCHANGED <<agents, agent1, agent2, api_keys, model_combo, stop_conversation,
                   max_turns, current_turn, turn_delay, nruns, nclicks, ncalls, api, error_box>>

\* lines 706-707: after the loop, the test of the stop flag and the
\* "Conversation completed" event; the run has then reported and the thread
\* has line 708 left to execute ("closing")
RunExit(t) ==
    /\ threads[t].pc = "exit"
    /\ IF ~stop_conversation
       THEN /\ log' = LogBy(t, <<Event("System",
                                  <<"Conversation completed (reached maximum turns)">>)>>)
            /\ threads' = [threads EXCEPT ![t] =
                              [Ended("completed") EXCEPT !.pc = "closing"]]
       ELSE /\ threads' = [threads EXCEPT ![t] = Ended("none")]
            /\ UNCHANGED log
    /\ UNCHANGED <<agents, agent1, agent2, api_keys, model_combo, conversation_started,
                   stop_conversation, max_turns, current_turn, turn_delay, nruns,
                   nclicks, ncalls, api, error_box>>

\* lines 708-709: conversation_started is set to False and the thread ends
RunClose(t) ==
    /\ threads[t].pc = "closing"
    /\ conversation_started' = FALSE
    /\ threads' = [threads EXCEPT ![t] = Ended("completed")]
    /\ UNCHANGED <<agents, agent1, agent2, api_keys, model_combo, stop_conversation,
                   max_turns, current_turn, turn_delay, log, nruns, nclicks, ncalls,
                   api, error_box>>


(***************************************************************************)
(* The foreground handlers of DualAgentChatGUI                             *)
(***************************************************************************)
\* values typed into the "Maximum Turns" and "Delay" spinboxes that parse
TurnValues == 0 .. MaxTurns

DelayValues == {-1, 1}

\* the run number of the next thread
NextRun == Cardinality({t \in RunIds : threads[t].pc # "none"}) + 1

\* the texts of the two system prompt entries when a run is requested
SystemPromptEntries == {<<<<"sys">>, <<>>>>}

\* lines 588-595: both models and both system prompts are set
Configure(ags, a1, a2, combo, s1, s2) ==
    LET m1 == SetModel(ags[a1], combo[1])
        m2 == SetModel(ags[a2], combo[2])
        p1 == SetSystemPrompt(m1.agent, s1)
        p2 == SetSystemPrompt(m2.agent, s2)
    IN  [agents |-> [ags EXCEPT ![a1] = p1.agent, ![a2] = p2.agent],
         events |-> m1.events \o m2.events \o p1.events \o p2.events]

\* logger.clear(): the widget is emptied and "Log cleared" is logged
LogCleared == <<Event("System", <<"Log cleared">>)>>

\* line 584 tested on the first combobox only
ModelsSelectedFirst(combo) == Truthy(combo[1])

\* line 584: both comboboxes hold a model name
ModelsSelected(combo) == Truthy(combo[1]) /\ Truthy(combo[2])

SelectModels == <<"Please select models for both agents">>

\* start_conversation while no conversation is marked as started.
\* parse: "turns" / "delay" when that spinbox does not parse, else "ok";
\* yes: the answer to "Starting a new conversation will clear the current
\* logs", asked because the log is not empty after set_model has logged.
StartConversation ==
    /\ ~conversation_started
    /\ ~DialogOpen
    /\ error_box = <<>>
    /\ IF ~ModelsSelected(model_combo)
       THEN /\ error_box' = SelectModels
            /\ UNCHANGED <<agents, agent1, agent2, api_keys, model_combo,
                           conversation_started, stop_conversation, max_turns,
                           current_turn, turn_delay, log, threads, nruns,
                           nclicks, ncalls, api>>
       ELSE /\ nruns < MaxRuns
            /\ nruns' = nruns + 1
            /\ \E sp \in SystemPromptEntries,
                  parse \in {"turns", "delay", "ok"},
                  turns \in TurnValues, delay \in DelayValues, yes \in BOOLEAN :
                 LET cfg == Configure(agents, agent1, agent2, model_combo, sp[1], sp[2])
                     c1 == ClearConversationHistory(cfg.agents[agent1])
                     c2 == ClearConversationHistory(cfg.agents[agent2])
                 IN  /\ max_turns' = IF parse = "turns" THEN max_turns ELSE turns
                     /\ turn_delay' = IF parse = "ok" THEN delay ELSE turn_delay
                     /\ IF parse = "ok" /\ yes
                        THEN /\ agents' = [cfg.agents EXCEPT ![agent1] = c1.agent,
                                                             ![agent2] = c2.agent]
                             /\ log' = Logged(LogCleared)
                             /\ conversation_started' = TRUE
                             /\ stop_conversation' = FALSE
                             /\ current_turn' = 0
                             /\ threads' = [threads EXCEPT ![NextRun].pc = "start"]
                        ELSE /\ agents' = cfg.agents
                             /\ log' = LogBy(0, cfg.events)
                             /\ UNCHANGED <<conversation_started, stop_conversation,
                                            current_turn, threads>>
            /\ UNCHANGED <<agent1, agent2, api_keys, model_combo, nclicks, ncalls, api, error_box>>

\* start_conversation while a conversation is marked as started: the stop
\* request
StopConversation ==
    /\ conversation_started
    /\ ~DialogOpen
    /\ error_box = <<>>
    /\ stop_conversation' = TRUE
    /\ conversation_started' = FALSE
    /\ log' = LogBy(0, <<Event("System", <<"Conversation stopped by user">>)>>)
    /\ threads' = [t \in RunIds |->
                     IF threads[t].pc \in {"none", "done"} \/ threads[t].cancelled # "no"
                     THEN threads[t]
                     ELSE [threads[t] EXCEPT !.cancelled =
                              IF /\ threads[t].pc \in {"sleep1", "sleep2"}
                                 /\ threads[t].delay >= 0
                              THEN "delay" ELSE "busy",
                                             !.at_stop = threads[t].returned]]
    /\ UNCHANGED <<agents, agent1, agent2, api_keys, model_combo, max_turns,
                   current_turn, turn_delay, nruns, nclicks, ncalls, api, error_box>>

\* clear_context, confirmed
ClearContext ==
    /\ ~DialogOpen
    /\ error_box = <<>>
    /\ nclicks < MaxClicks
    /\ nclicks' = nclicks + 1
    /\ LET c1 == ClearConversationHistory(agents[agent1])
           c2 == ClearConversationHistory(agents[agent2])
       IN  /\ agents' = [agents EXCEPT ![agent1] = c1.agent, ![agent2] = c2.agent]
           /\ log' = LogBy(0, c1.events \o c2.events)
    /\ UNCHANGED <<agent1, agent2, api_keys, model_combo, conversation_started,
                   stop_conversation, max_turns, current_turn, turn_delay, threads,
                   nruns, ncalls, api, error_box>>

\* the text of a key entry that stands for the stored key: "*" * 12
Mask == <<"************">>

\* what the key entries of the providers in use hold when Apply is clicked
KeyEntries == {<<"sk-1">>, <<>>}

\* the order in which apply_api_settings reads the key entries
KeyOrder == <<"openai", "anthropic", "grok", "gemini">>

\* lines 454-497: the key entries of the providers in use are read in
\* order; an empty entry ends the handler, the keys read before it stay
RECURSIVE ReadKeys(_, _, _, _)
ReadKeys(i, used, typed, keys) ==
    IF i > Len(KeyOrder)
    THEN [ok |-> TRUE, keys |-> keys]
    ELSE IF KeyOrder[i] \notin used
    THEN ReadKeys(i + 1, used, typed, keys)
    ELSE IF typed = Mask
    THEN ReadKeys(i + 1, used, typed, keys)
    ELSE IF ~Truthy(typed)
    THEN [ok |-> FALSE, keys |-> keys]
    ELSE ReadKeys(i + 1, used, typed, [keys EXCEPT ![KeyOrder[i]] = typed])

\* the provider pairs selected in the two API type comboboxes
ApplyTypes == {<<"gemini", "grok">>, <<"grok", "gemini">>}

\* what the discovery request of a new handler does when Apply is clicked
ApplyDiscovery(ag) == DiscoveryOutcomes(ag) \cap {"ok", "none"}

\* the handler create_handler builds for api_type from the keys read
NewHandler(api_type, keys) ==
    CreateHandler(api_type, IF api_type \in Hosted THEN keys[api_type] ELSE <<>>, TRUE)

\* apply_api_settings: typed is the text in the key entries of the
\* providers in use, o1 / o2 what the two model discoveries do.  An
\* exception of agent 1's discovery leaves the handler before agent 2's.
ApplyApiSettings ==
    /\ ~DialogOpen
    /\ error_box = <<>>
    /\ nclicks < MaxClicks
    /\ nclicks' = nclicks + 1
    /\ \E types \in ApplyTypes, typed \in KeyEntries :
        LET rk == ReadKeys(1, {types[1], types[2]}, typed, api_keys)
            h1 == NewHandler(types[1], rk.keys)
            h2 == NewHandler(types[2], rk.keys)
            n1 == 2 * nclicks + 3
            n2 == 2 * nclicks + 4
            updated == <<Event("System", <<"Updated Agent 1 to use", types[1], "API">>),
                         Event("System", <<"Updated Agent 2 to use", types[2], "API">>)>>
        IN  /\ api_keys' = rk.keys
            /\ IF ~rk.ok
               THEN UNCHANGED <<agents, agent1, agent2, model_combo, log>>
               ELSE \E o1 \in ApplyDiscovery(h1.agent), o2 \in ApplyDiscovery(h2.agent) :
                      LET d1 == GetAvailableModels(h1.agent, o1)
                          d2 == GetAvailableModels(h2.agent, o2)
                      IN  /\ agent1' = n1
                          /\ agent2' = n2
                          /\ agents' = Live([agents EXCEPT ![n1] = h1.agent,
                                                           ![n2] = h2.agent],
                                            n1, n2, threads)
                          /\ model_combo' =
                               IF d1.raised THEN model_combo
                               ELSE <<IF d1.models # <<>> THEN Combo1Choice(d1.models)
                                      ELSE model_combo[1],
                                      IF ~d2.raised /\ d2.models # <<>>
                                      THEN Combo2Choice(d2.models)
                                      ELSE model_combo[2]>>
                          /\ log' = LogBy(0, h1.events \o h2.events \o updated
                                              \o d1.events
                                              \o IF d1.raised THEN <<>> ELSE d2.events)
    /\ UNCHANGED <<conversation_started, stop_conversation, max_turns, current_turn,
                   turn_delay, threads, nruns, ncalls, api, error_box>>

\* the user closes the message box of line 585
CloseErrorBox ==
    /\ error_box # <<>>
    /\ error_box' = <<>>
    /\ UNCHANGED <<agents, agent1, agent2, api_keys, model_combo,
                   conversation_started, stop_conversation, max_turns,
                   current_turn, turn_delay, log, threads, nruns, nclicks,
                   ncalls, api>>

Next ==
    \/ StartConversation
    \/ CloseErrorBox
    \/ StopConversation
    \/ ClearContext
    \/ ApplyApiSettings
    \/ \E t \in RunIds : RunBegin(t)
    \/ \E t \in RunIds : RunTop(t)
    \/ \E t \in RunIds : RunNetwork(t)
    \/ \E t \in RunIds : RunDismiss(t)
    \/ \E t \in RunIds : RunSleep2(t)
    \/ \E t \in RunIds : RunSleep1(t)
    \/ \E t \in RunIds : RunExit(t)
    \/ \E t \in RunIds : RunClose(t)

Spec == Init /\ [][Next]_vars

\* the steps of run t's thread that need nothing but the scheduler and the
\* return of the network call; RunDismiss is a step of the user
ThreadStep(t) ==
    \/ RunBegin(t)
    \/ RunTop(t)
    \/ RunNetwork(t)
    \/ RunSleep2(t)
    \/ RunSleep1(t)
    \/ RunExit(t)
    \/ RunClose(t)

\* the program with every thread scheduled and every network call
\* returning; the steps of the user are under no fairness condition
LiveSpec == Spec /\ \A t \in RunIds : WF_vars(ThreadStep(t))

(***************************************************************************)
(* Claims about the handler contract, checked under AgentSpec.             *)
(***************************************************************************)
\* the step is a call of get_response by the harness
IsGetResponse == api'.tick # api.tick /\ api'.op = "get_response"

History(o) == agents[o].conversation_history

HasErrorEvent(events) == \E i \in 1 .. Len(events) : events[i].source = "Error"

\* C1: for every provider, get_response called while no model is selected,
\* or while the API key a hosted provider requires is missing, returns a
\* text that starts with "Error:" and leaves the history as it was.
C1_PreconditionError ==
    [][(/\ IsGetResponse
        /\ \/ ~Truthy(agents[1].selected_model)
           \/ (agents[1].kind \in Hosted /\ ~Truthy(agents[1].api_key)))
       => (/\ StartsWithError(api'.ret)
           /\ agents'[1].conversation_history = History(1))]_vars

\* a call refused for a missing model, and one refused for a missing key,
\* on a handler whose history already holds earlier messages
C1_Witness ==
    /\ api.op = "get_response"
    /\ api.outcome = "none"
    /\ StartsWithError(api.ret)
    /\ Len(History(1)) >= 2
    /\ agents[1].kind \in Hosted
    /\ ~Truthy(agents[1].selected_model) \/ ~Truthy(agents[1].api_key)

\* C2: for every provider, a successful get_response(prompt) appends
\* exactly {user, prompt} and then {assistant, reply} to the end of the
\* history, leaves the earlier entries as they were, and returns reply.
C2_SuccessAppendsPair ==
    [][(IsGetResponse /\ api'.outcome = "ok")
       => (/\ api'.ret = api'.reply
           /\ agents'[1].conversation_history =
                  History(1) \o <<Msg("user", api'.prompt),
                                  Msg("assistant", api'.reply)>>)]_vars

\* a second successful call: the first pair is still in front of the new one
C2_Witness ==
    /\ api.op = "get_response"
    /\ api.outcome = "ok"
    /\ Len(History(1)) = 4
    /\ History(1)[4] = Msg("assistant", api.ret)
    /\ History(1)[3] = Msg("user", api.prompt)
    /\ History(1)[1].content # api.prompt

\* C3 as stated: for every provider, a failed network call returns a text
\* that starts with "Error:", reports an event tagged "Error" to the sink
\* and leaves the history longer by exactly the one user message.
C3_Original ==
    [][(IsGetResponse /\ api'.outcome \in {"exc", "status"})
       => (/\ StartsWithError(api'.ret)
           /\ HasErrorEvent(log'[0])
           /\ agents'[1].conversation_history =
                  Append(History(1), Msg("user", api'.prompt)))]_vars

\* C3 amended: as C3, but the Gemini handler, which stores the user message
\* only after a successful call, leaves its history unchanged.
C3_FailureKeepsUserMessage ==
    [][(IsGetResponse /\ api'.outcome \in {"exc", "status"})
       => (/\ StartsWithError(api'.ret)
           /\ HasErrorEvent(log'[0])
           /\ agents'[1].conversation_history =
                  IF agents[1].kind = "gemini"
                  THEN History(1)
                  ELSE Append(History(1), Msg("user", api'.prompt)))]_vars

\* a failed call after a successful one, on a handler that is not Gemini:
\* the history ends with the user message and no assistant entry follows it
C3_Witness ==
    /\ api.op = "get_response"
    /\ api.outcome \in {"exc", "status"}
    /\ agents[1].kind # "gemini"
    /\ Len(History(1)) = 3
    /\ History(1)[3] = Msg("user", api.prompt)
    /\ StartsWithError(api.ret)
    /\ HasErrorEvent(log[0])

\* C11: for every provider and every failure of the network call (an
\* exception of any kind, or for Grok an answer other than 200),
\* get_response returns normally, no exception leaves it, and the text it
\* returns starts with "Error:".
C11_FailureIsReturned ==
    [][(IsGetResponse /\ api'.outcome \in {"exc", "status"})
       => (~api'.raised /\ StartsWithError(api'.ret))]_vars

\* a call whose network call raised has returned its error text, on a
\* handler that had answered a call before
C11_Witness ==
    /\ api.op = "get_response"
    /\ api.outcome = "exc"
    /\ ~api.raised
    /\ StartsWithError(api.ret)
    /\ Len(History(1)) >= 2

\* the step is a call of method op by the harness
IsCall(op) == api'.tick # api.tick /\ api'.op = op

\* the kinds whose name api_type is, whatever the case of its letters
KindsNamed(api_type) ==
    UNION {{k \in Providers : l = Spelling(k)} : l \in {Lower(api_type)}}

\* C12: create_handler with an api_type that names none of the five kinds
\* raises an error whose text holds the api_type as given, and no handler
\* is constructed; with an api_type that names a kind in any case of
\* letters it returns a handler of that kind with an empty history and no
\* selected model.
C12_FactoryByKind ==
    api.op = "create_handler"
    => \A kinds \in {KindsNamed(api.arg)} :
         IF kinds = {}
         THEN /\ api.raised
              /\ SubSeq(api.ret, Len(api.ret) - Len(api.arg) + 1, Len(api.ret))
                     = api.arg
              /\ agents[1] = NoHandler
         ELSE /\ ~api.raised
              /\ agents[1].kind \in kinds
              /\ agents[1].conversation_history = <<>>
              /\ ~Truthy(agents[1].selected_model)

\* the factory has refused the identifier "llama": its error names it and
\* there is no handler
C12_Witness ==
    /\ api.op = "create_handler"
    /\ api.raised
    /\ api.arg = <<"l", "l", "a", "m", "a">>
    /\ api.ret = <<"Unknown API type:", "l", "l", "a", "m", "a">>
    /\ agents[1] = NoHandler

\* C13: get_available_models on a hosted handler whose API key is not set
\* returns an empty list and does not raise; it makes no request and
\* leaves the history and the selected model as they were.
C13_NoKeyNoModels ==
    [][(/\ IsCall("get_available_models")
        /\ agents[1].kind \in Hosted
        /\ ~Truthy(agents[1].api_key))
       => (/\ api'.models = <<>>
           /\ ~api'.raised
           /\ api'.outcome = "none"
           /\ agents'[1] = agents[1])]_vars

\* discovery was asked of a hosted handler that has a model selected and
\* a history, after its key was taken away
C13_Witness ==
    /\ api.op = "get_available_models"
    /\ agents[1].kind \in Hosted
    /\ ~Truthy(agents[1].api_key)
    /\ Truthy(agents[1].selected_model)
    /\ Len(History(1)) >= 2
    /\ api.models = <<>>
    /\ ~api.raised

\* C14: for every provider, when the request of get_available_models
\* fails (no connection, a timeout, a status other than 200, a malformed
\* body), the call does not raise, returns an empty list and reports an
\* event tagged "Error" to the sink.
C14_DiscoveryNeverRaises ==
    [][(IsCall("get_available_models") /\ api'.outcome \in {"status", "conn", "exc"})
       => (/\ ~api'.raised
           /\ api'.models = <<>>
           /\ HasErrorEvent(log'[0]))]_vars

\* C15: clear_conversation_history empties the history, from any earlier
\* history, so that get_conversation_length right after it is 0; a second
\* call leaves what the first left; the selected model and the system
\* prompt stay as they were.
C15_ClearHistory ==
    [][IsCall("clear_conversation_history")
       => (/\ api'.length = 0
           /\ agents'[1].conversation_history = <<>>
           /\ ClearConversationHistory(agents'[1]).agent = agents'[1]
           /\ agents'[1].selected_model = agents[1].selected_model
           /\ agents'[1].system_prompt = agents[1].system_prompt)]_vars

\* a history of two calls was cleared on a handler with a model and a
\* system prompt set
C15_Witness ==
    /\ api.op = "clear_conversation_history"
    /\ api.before >= 4
    /\ api.length = 0
    /\ GetConversationLength(agents[1]) = 0
    /\ Truthy(agents[1].selected_model)
    /\ Truthy(agents[1].system_prompt)

\* C25: get_conversation_history returns the stored history in its order,
\* with one entry {system, system prompt} in front exactly when the system
\* prompt is not empty, and leaves the handler as it was;
\* get_conversation_length counts the stored messages only, so the list
\* returned is longer than it by one when a system prompt is set and as
\* long as it otherwise.
C25_HistoryProjection ==
    [][IsCall("get_conversation_history")
       => LET full == api'.history
              d == Len(full) - Len(History(1))
          IN  /\ agents' = agents
              /\ api'.length = Len(History(1))
              /\ d = IF Truthy(agents[1].system_prompt) THEN 1 ELSE 0
              /\ Len(full) = api'.length + d
              /\ SubSeq(full, d + 1, Len(full)) = History(1)
              /\ d = 1 => full[1] = Msg("system", agents[1].system_prompt)]_vars

\* the history was read on a handler with a system prompt and the messages
\* of a call: the list returned has the system entry and then the messages
C25_Witness ==
    /\ api.op = "get_conversation_history"
    /\ Truthy(agents[1].system_prompt)
    /\ api.length >= 2
    /\ Len(api.history) = api.length + 1
    /\ api.history[1].role = "system"
    /\ api.history[2] = History(1)[1]

\* a request read provider by provider: the system prompt from where the
\* provider takes it, each earlier message with the role it stands for,
\* and the message sent
Conveyed(req) ==
    (IF Truthy(req.system) THEN <<Msg("system", req.system)>> ELSE <<>>)
    \o [i \in 1 .. Len(req.messages) |->
           IF "parts" \in DOMAIN req.messages[i]
           THEN Msg(IF req.messages[i].role = "model" THEN "assistant" ELSE "user",
                    req.messages[i].parts[1])
           ELSE req.messages[i]]
    \o (IF Truthy(req.message) THEN <<Msg("user", req.message)>> ELSE <<>>)

\* C26: for every provider, the request of a get_response(prompt) call that
\* passes the checks carries the system prompt as it is then (when it is
\* not empty) first, then every message the history held before the call in
\* its order, then the prompt as the last user message, and nothing else;
\* a call refused by the checks makes no request; the history never holds a
\* system entry.
C26_RequestCarriesContext ==
    [][IsGetResponse
       => (/\ api'.request.made <=> api'.outcome # "none"
           /\ api'.request.made
              => Conveyed(api'.request)
                 = (IF Truthy(agents[1].system_prompt)
                    THEN <<Msg("system", agents[1].system_prompt)>> ELSE <<>>)
                   \o History(1) \o <<Msg("user", api'.prompt)>>
           /\ \A i \in 1 .. Len(agents'[1].conversation_history) :
                 agents'[1].conversation_history[i].role \in {"user", "assistant"})]_vars

\* a second call was made after a system prompt was set: its request
\* begins with the system prompt, goes on with the two messages of the
\* first call and ends with the new prompt
C26_Witness ==
    /\ api.op = "get_response"
    /\ api.request.made
    /\ Truthy(agents[1].system_prompt)
    /\ Len(Conveyed(api.request)) = 4
    /\ Conveyed(api.request)[1] = Msg("system", agents[1].system_prompt)
    /\ Conveyed(api.request)[2].role = "user"
    /\ Conveyed(api.request)[3].role = "assistant"
    /\ Conveyed(api.request)[4] = Msg("user", api.prompt)
    /\ Conveyed(api.request)[2].content # api.prompt

OpenAIReady == agents[1].kind = "openai" /\ Truthy(agents[1].api_key) /\ agents[1].client

\* C28 as stated: get_available_models of an OpenAI handler with a key
\* configured makes no request and returns a list that is not empty.
C28_Original ==
    [][(IsCall("get_available_models") /\ OpenAIReady)
       => (api'.outcome = "none" /\ api'.models # <<>>)]_vars

\* C28 amended: get_available_models of an OpenAI handler with a key
\* configured makes one request for the provider's listing and returns the
\* ids in it that start with "gpt-3.5" or "gpt-4", in the order of the
\* listing, which may be none; when the request fails it returns an empty
\* list, reports an event tagged "Error" and does not raise.  The handler
\* stays as it was.
C28_OpenAILiveQuery ==
    [][(IsCall("get_available_models") /\ OpenAIReady)
       => (/\ api'.outcome \in {"ok", "empty", "exc"}
           /\ ~api'.raised
           /\ agents'[1] = agents[1]
           /\ \A i \in 1 .. Len(api'.models) :
                 api'.models[i][1] \in {"gpt-3.5", "gpt-4"}
           /\ api'.outcome = "ok"
              => api'.models = <<OpenAIListing[1], OpenAIListing[3]>>
           /\ api'.outcome = "empty" => api'.models = <<>>
           /\ api'.outcome = "exc"
              => (api'.models = <<>> /\ HasErrorEvent(log'[0])))]_vars

\* an OpenAI handler with its key asked the provider and got the two chat
\* models of a listing of three
C28_Witness ==
    /\ api.op = "get_available_models"
    /\ OpenAIReady
    /\ api.outcome = "ok"
    /\ Len(api.models) = 2
    /\ Len(OpenAIListing) = 3
    /\ log[0] = Loaded("openai", 2)

(***************************************************************************)
(* Claims about the turn loop, checked under Spec.                         *)
(***************************************************************************)
\* run t's loop has been started and has not left the loop
InLoop(t) == threads[t].pc \in {"start", "top", "net1", "net2", "dlg1", "dlg2",
                                "sleep1", "sleep2"}

InCall(th) == th.pc \in {"net1", "net2", "dlg1", "dlg2"}

\* the number of get_response calls the run has begun
Calls(th) == th.begun1 + th.begun2

\* the step begins a get_response call of run t
Begins(t) == Calls(threads'[t]) = Calls(threads[t]) + 1

\* C4: when a run starts, after the seeding step and before its first
\* adapter call, the first-mover's history is exactly the one entry
\* {assistant, initial prompt} and the second-mover's history is empty.
C4_SeedingRule ==
    \A t \in RunIds :
        (threads[t].pc = "top" /\ Calls(threads[t]) = 0)
        => (/\ History(agent1) = <<Msg("assistant", threads[t].initial_prompt)>>
            /\ History(agent2) = <<>>)

\* C5: a run whose loop was started with maxTurns = N >= 1 calls the
\* second-mover at most N times and the first-mover at most N - 1 times
\* (2N - 1 calls in all), and a run that was never cancelled and reports
\* Completed has made exactly these numbers of calls.
C5_CallBound ==
    [][\A t \in RunIds :
         threads[t].last >= 1
         => (/\ threads'[t].begun2 <= threads[t].last
             /\ threads'[t].begun1 <= threads[t].last - 1
             /\ (/\ threads[t].pc = "exit"
                 /\ threads'[t].reported = "completed"
                 /\ threads[t].cancelled = "no")
                => (/\ threads[t].begun2 = threads[t].last
                    /\ threads[t].begun1 = threads[t].last - 1))]_vars

\* C6: within a run the calls alternate, starting with the second-mover:
\* call k goes to the second-mover when k is odd and to the first-mover when
\* k is even, it begins only after the calls before it have returned, and
\* its prompt is the text call k - 1 returned (the initial prompt for k = 1).
C6_Alternation ==
    [][\A t \in RunIds :
         Begins(t)
         => LET k == Calls(threads[t]) IN
            /\ threads[t].returned = k
            /\ threads'[t].prompt = IF k = 0 THEN threads[t].initial_prompt
                                    ELSE threads[t].last_ret
            /\ IF k % 2 = 0
               THEN /\ threads'[t].begun2 = threads[t].begun2 + 1
                    /\ threads'[t].target = agent2
               ELSE /\ threads'[t].begun1 = threads[t].begun1 + 1
                    /\ threads'[t].target = agent1]_vars

\* the third call of a run is in flight on the second-mover, with the reply
\* of the second call as its prompt
C6_Witness ==
    \E t \in RunIds :
        /\ threads[t].pc = "net2"
        /\ threads[t].begun2 = 2
        /\ threads[t].begun1 = 1
        /\ threads[t].returned = 2
        /\ threads[t].target = agent2
        /\ threads[t].prompt = ReplyText(t, 2)

\* C7: a loop whose stop was requested during the pacing delay after call k
\* begins no call k + 1 and never reports Completed.
C7_CancelInDelay ==
    [][\A t \in RunIds :
         threads[t].cancelled = "delay"
         => (/\ ~Begins(t)
             /\ threads'[t].reported # "completed")]_vars

\* C8: there is never a state in which two run_conversation loops are both
\* alive and able to issue adapter calls.
C8_SingleLoop ==
    \A t, u \in RunIds :
        t # u => ~(InLoop(t) /\ InLoop(u) /\ ~stop_conversation)

\* C9: while a get_response call on a handler is in flight, nothing but the
\* return of that call changes the handler's history, and no other call
\* begins on that handler.
C9_NoOverlap ==
    [][\A t \in RunIds :
         (InCall(threads[t]) /\ threads'[t] = threads[t])
         => LET o == threads[t].callee IN
            /\ agents'[o].conversation_history = History(o)
            /\ \A u \in RunIds :
                 (InCall(threads'[u]) /\ threads'[u].callee = o)
                 => (InCall(threads[u]) /\ threads[u].callee = o)]_vars

\* C10: a call that ends, whatever text it returns, leaves the loop in its
\* pacing delay and not in a terminal state; a run ends as a failure only
\* when the loop itself raises (a negative delay); and when the text
\* returned starts with "Error:", the next call is made on the other agent
\* with that text as its prompt.
C10_ErrorIsContent ==
    [][\A t \in RunIds :
         /\ (InCall(threads[t]) /\ ~InCall(threads'[t]))
            => (/\ threads'[t].pc \in {"sleep1", "sleep2"}
                /\ threads'[t].reported = "none")
         /\ (threads'[t].reported = "error" /\ threads[t].reported # "error")
            => threads[t].delay < 0
         /\ (Begins(t) /\ threads[t].returned >= 1
                       /\ StartsWithError(threads[t].last_ret))
            => (/\ threads'[t].prompt = threads[t].last_ret
                /\ threads'[t].target = IF Calls(threads[t]) % 2 = 1
                                        THEN agent1 ELSE agent2)]_vars

\* the first-mover's call is in flight with the error text the second-mover
\* returned as its prompt
C10_Witness ==
    \E t \in RunIds :
        /\ threads[t].pc = "net1"
        /\ threads[t].target = agent1
        /\ StartsWithError(threads[t].prompt)
        /\ threads[t].prompt = threads[t].last_ret
        /\ threads[t].cancelled = "no"

\* C16: a run that leaves its loop reports Completed exactly when it was
\* never cancelled and all its turns were consumed (one second-mover call
\* per turn of the range it started with): a cancelled run never reports
\* Completed, an uncancelled one whose loop raised nothing always does.
C16_CompletedIffUncancelled ==
    [][\A t \in RunIds :
         (threads[t].pc = "exit" /\ threads'[t].pc \in {"done", "closing"})
         => ((threads'[t].reported = "completed")
             <=> (/\ threads[t].cancelled = "no"
                  /\ threads[t].begun2 = threads[t].last))]_vars

\* C17: once a stop was requested, a call in flight still returns to the
\* loop and its reply is the last entry of its handler's history, and at
\* most one call of the loop returns from then on.
C17_CancelAtBoundary ==
    [][\A t \in RunIds :
         threads[t].cancelled # "no"
         => (/\ threads'[t].returned <= threads[t].at_stop + 1
             /\ (InCall(threads[t]) /\ ~InCall(threads'[t]))
                => (/\ threads'[t].pc \in {"sleep1", "sleep2"}
                    /\ (/\ threads[t].callee \in {agent1, agent2}
                        /\ ~StartsWithError(threads'[t].last_ret))
                       => (/\ agents'[threads[t].callee].conversation_history # <<>>
                           /\ agents'[threads[t].callee].conversation_history[
                                  Len(agents'[threads[t].callee].conversation_history)]
                                = Msg("assistant", threads'[t].last_ret))))]_vars

\* C18: while either model combobox is empty, no step starts a loop, makes
\* a call, or changes current_turn, the stop flag or the started flag, and
\* a run request (a step that is not Clear Contexts or Apply API Settings)
\* leaves every history as it was.
C18_RejectWithoutModels ==
    [][(~Truthy(model_combo[1]) \/ ~Truthy(model_combo[2]))
       => (/\ threads' = threads
           /\ nruns' = nruns
           /\ ncalls' = ncalls
           /\ current_turn' = current_turn
           /\ stop_conversation' = stop_conversation
           /\ conversation_started' = conversation_started
           /\ nclicks' = nclicks
              => \A o \in ObjIds : agents'[o].conversation_history = History(o))]_vars

\* a run request was refused because the second combobox is empty: its
\* message box is open and no loop has been started
C18_Witness ==
    /\ error_box = SelectModels
    /\ Truthy(model_combo[1])
    /\ ~Truthy(model_combo[2])
    /\ ~conversation_started
    /\ nruns = 0
    /\ \A t \in RunIds : threads[t].pc = "none"

\* C19: when the loop of an accepted run request is about to start (and
\* the run was not cancelled meanwhile), current_turn is 0, the stop flag
\* is clear and both histories are empty: nothing of an earlier run is
\* left in them.
C19_FreshSession ==
    \A t \in RunIds :
        (threads[t].pc = "start" /\ threads[t].cancelled = "no")
        => (/\ current_turn = 0
            /\ ~stop_conversation
            /\ History(agent1) = <<>>
            /\ History(agent2) = <<>>)

\* C20: when the loop itself raises, the run ends there: its thread is
\* done and makes no call in that step or later, an event tagged "Error"
\* is logged, conversation_started is FALSE, and the run never reports
\* Completed.
C20_LoopErrorAborts ==
    [][\A t \in RunIds :
         /\ (threads'[t].reported = "error" /\ threads[t].reported # "error")
            => (/\ threads'[t].pc = "done"
                /\ ncalls' = ncalls
                /\ ~conversation_started'
                /\ Len(log'[t]) = Len(log[t]) + 1
                /\ log'[t][Len(log'[t])].source = "Error")
         /\ threads[t].reported = "error" => threads'[t] = threads[t]]_vars

\* a run has failed after its first call: the error is the last event its
\* thread logged, no loop is alive and a new run can be requested
C20_Witness ==
    \E t \in RunIds :
        /\ threads[t].reported = "error"
        /\ Len(log[t]) >= 3
        /\ log[t][Len(log[t])] = Event("Error", <<"Error in conversation:">> \o ExcText)
        /\ ~conversation_started
        /\ ~DialogOpen
        /\ \A u \in RunIds : threads[u].pc \in {"none", "done"}

\* the first-mover calls of the run that have returned: the cycles of the
\* run in which both calls were made and have ended
CyclesFinished(th) == IF th.pc \in {"net1", "dlg1"} THEN th.begun1 - 1 ELSE th.begun1

\* no loop but t's has been started and not ended
OnlyLoop(t) == \A u \in RunIds \ {t} : threads[u].pc \in {"none", "done"}

\* C21 as stated: while a run is going (one that was not cancelled, with
\* no other loop alive), current_turn equals the number of cycles that have
\* finished.
C21_Original ==
    \A t \in RunIds :
        (InLoop(t) /\ threads[t].cancelled = "no" /\ OnlyLoop(t))
        => current_turn = CyclesFinished(threads[t])

\* C21 amended: a loop stores the number n of a cycle in current_turn when
\* it begins cycle n, in the step that makes the second-mover's call of the
\* cycle, and not when the cycle ends; nothing else changes current_turn
\* but an accepted run request, which sets it to 0.  Every call that
\* returns leaves its loop in the pacing delay, with turn_delay as read
\* then, and the first-mover's call begins only out of that delay.
C21_TurnPublishedAtCycleStart ==
    [][/\ \A t \in RunIds :
            /\ threads'[t].begun2 = threads[t].begun2 + 1
               => (/\ current_turn' = threads'[t].begun2
                   /\ current_turn' = threads[t].turn)
            /\ threads'[t].returned = threads[t].returned + 1
               => (/\ threads'[t].pc \in {"sleep1", "sleep2"}
                   /\ threads'[t].delay = turn_delay)
            /\ threads'[t].begun1 = threads[t].begun1 + 1
               => threads[t].pc = "sleep2"
            /\ (threads[t].pc = "sleep1" /\ threads'[t].pc = "top")
               => current_turn' = current_turn
       /\ current_turn' # current_turn
          => \/ \E t \in RunIds : threads'[t].begun2 = threads[t].begun2 + 1
             \/ /\ current_turn' = 0
                /\ \E t \in RunIds : threads[t].pc = "none" /\ threads'[t].pc = "start"]_vars

\* the only loop is in the second-mover's call of its second cycle: one
\* cycle has finished and current_turn is 2
C21_Witness ==
    \E t \in RunIds :
        /\ OnlyLoop(t)
        /\ threads[t].cancelled = "no"
        /\ threads[t].pc = "net2"
        /\ threads[t].turn = 2
        /\ CyclesFinished(threads[t]) = 1
        /\ current_turn = 2

\* C22: while the loop of a run that was not cancelled is going, self.agent1
\* and self.agent2 stay the handler objects they were, so that every call of
\* the run is made on one of the two objects it started with, and no step
\* takes the history away from the two objects.
C22_SameAgents ==
    [][(\E t \in RunIds : InLoop(t) /\ threads[t].cancelled = "no")
       => (/\ agent1' = agent1
           /\ agent2' = agent2
           /\ \A t \in RunIds :
                 Begins(t) => threads'[t].target \in {agent1, agent2})]_vars

\* C23: a get_response call of a loop that has been begun ends, and the
\* loop goes on to its pacing delay, whatever the user does or omits to do:
\* reporting the failure of the call does not hold the loop back.
C23_ReportNeverBlocks ==
    \A t \in RunIds :
        InCall(threads[t]) ~> (threads[t].pc \in {"sleep1", "sleep2", "done"})

\* the sink has an event of writer w whose message is text
Notified(lg, w, text) == \E i \in 1 .. Len(lg[w]) : lg[w][i].message = text

\* C24: the text every call of a run returns is logged by the run's thread:
\* the text of call k is in the log before call k + 1 begins, and when a run
\* that was never cancelled (with no other loop alive, and no settings
\* applied or contexts cleared) reports Completed, the text its final call
\* returned is in the log as well.
C24_EveryReplyRelayed ==
    [][\A t \in RunIds :
         /\ (Begins(t) /\ threads[t].returned >= 1)
            => Notified(log', t, threads[t].last_ret)
         /\ (/\ threads[t].pc = "exit"
             /\ threads'[t].reported = "completed"
             /\ threads[t].cancelled = "no"
             /\ OnlyLoop(t)
             /\ nclicks = 0
             /\ threads[t].returned >= 1)
            => Notified(log', t, threads[t].last_ret)]_vars

\* text part occurs in text
Contains(text, part) ==
    \E i \in 1 .. (Len(text) - Len(part) + 1) : SubSeq(text, i, i + Len(part) - 1) = part

\* the API keys the application holds: those stored by apply_api_settings
\* and those of the handler objects
KeysHeld ==
    ({api_keys[k] : k \in Hosted} \cup {agents[o].api_key : o \in ObjIds}) \ {<<>>}

\* C29: no event in the log, whether written by a handler or by the
\* application, has an API key the application holds in its message.
C29_KeyNeverLogged ==
    \A w \in Writers : \A i \in 1 .. Len(log[w]) : \A key \in KeysHeld :
        ~Contains(log[w][i].message, key)

\* the handlers were built with a typed key, and a request of a run that
\* the second of them, a Grok handler, sent with the key in its header was
\* answered with an error status, which was reported
C29_Witness ==
    \E t \in RunIds :
        /\ Truthy(agents[agent1].api_key)
        /\ Truthy(agents[agent2].api_key)
        /\ agents[agent2].kind = "grok"
        /\ threads[t].target = agent2
        /\ threads[t].returned >= 1
        /\ threads[t].last_ret = ErrorPrefix \o GrokStatusError
        /\ HasErrorEvent(log[t])
        /\ log[0] # <<>>

\* h1 and h2 hold the same texts with the roles exchanged, h1 beginning
\* with an assistant entry, and neither is ahead by more than one entry
Mirror(h1, h2) ==
    /\ \A i \in 1 .. Len(h1) :
          i <= Len(h2) => (h1[i].content = h2[i].content /\ h1[i].role # h2[i].role)
    /\ h1 # <<>> => h1[1].role = "assistant"
    /\ h2 # <<>> => h2[1].role = "user"
    /\ Len(h1) - Len(h2) \in {-1, 0, 1}

\* no call so far has returned an error text: none is held by a loop and
\* none was passed on into a history
NoErrorSoFar ==
    /\ \A t \in RunIds :
          /\ ~StartsWithError(threads[t].last_ret)
          /\ ~StartsWithError(threads[t].response1)
          /\ ~StartsWithError(threads[t].response2)
    /\ \A o \in {agent1, agent2} : \A i \in 1 .. Len(History(o)) :
          ~StartsWithError(History(o)[i].content)

\* C30: while a run that was not cancelled is in its loop, has been seeded,
\* no call is in flight, no call has failed and no contexts were cleared
\* or settings applied, the histories of the two agents mirror each other.
C30_MirrorHistories ==
    (/\ \E t \in RunIds :
          /\ threads[t].pc \in {"top", "sleep1", "sleep2", "exit"}
          /\ threads[t].cancelled = "no"
     /\ \A t \in RunIds : ~InCall(threads[t])
     /\ nclicks = 0
     /\ NoErrorSoFar)
    => Mirror(History(agent1), History(agent2))

\* C31: when a run of N >= 1 turns that was never cancelled reports
\* Completed, no call so far having failed and no contexts having been
\* cleared or settings applied, the second-mover's history has 2N entries
\* and the first-mover's 2N - 1.
C31_FinalLengths ==
    [][\A t \in RunIds :
         (/\ threads[t].pc = "exit"
          /\ threads'[t].reported = "completed"
          /\ threads[t].cancelled = "no"
          /\ threads[t].last >= 1
          /\ nclicks = 0
          /\ NoErrorSoFar)
         => (/\ Len(History(agent2)) = 2 * threads[t].last
             /\ Len(History(agent1)) = 2 * threads[t].last - 1)]_vars

\* C32: while a loop whose stop was requested is alive, no step clears
\* stop_conversation, and the loop begins no call at its stop tests.
C32_StopNeverLost ==
    [][\A t \in RunIds :
         (InLoop(t) /\ threads[t].cancelled # "no")
         => (/\ stop_conversation => stop_conversation'
             /\ ~Begins(t))]_vars

\* C33: a run does not report both outcomes: a loop whose stop was
\* requested (the request being logged as "Conversation stopped by user")
\* does not log "Conversation completed", and no stop is requested of a
\* run that has logged it.
C33_OneOutcome ==
    [][\A t \in RunIds :
         /\ threads[t].cancelled # "no" => threads'[t].reported # "completed"
         /\ threads[t].reported = "completed" => threads'[t].cancelled = "no"]_vars

\* every assistant entry of h follows a user entry, but for a first entry
\* when seeded
Paired(h, seeded) ==
    \A i \in 1 .. Len(h) :
        h[i].role = "assistant"
        => \/ i = 1 /\ seeded
           \/ i > 1 /\ h[i - 1].role = "user"

\* C34: in the history of every handler each assistant entry comes right
\* after a user entry, the first entry of self.agent1's history excepted.
\* Stated for the behaviours in which one run at most was started, where
\* no second loop can seed the history again.
C34_AssistantFollowsUser ==
    nruns <= 1
    => \A o \in ObjIds :
         agents[o].kind \in Providers => Paired(History(o), o = agent1)

\* C35: self.current_turn stays between 0 and self.max_turns, it never goes
\* down while a loop is running, and a running loop has begun at most
\* 2 * self.current_turn get_response calls.
C35_TurnBounds ==
    [][/\ 0 <= current_turn' /\ current_turn' <= max_turns'
       /\ (\E t \in RunIds : InLoop(t)) => current_turn' >= current_turn
       /\ \A t \in RunIds :
            threads'[t].pc \in {"top", "net1", "net2", "dlg1", "dlg2",
                                "sleep1", "sleep2", "exit"}
            => Calls(threads'[t]) <= 2 * current_turn']_vars

\* C36: a run whose range(1, self.max_turns + 1) is empty (max_turns <= 0),
\* that was not stopped and during which no settings button was clicked,
\* begins no get_response call, ends with agent 1's history being the one
\* seed entry and agent 2's history empty, and logs "Conversation completed".
C36_ZeroTurns ==
    [][\A t \in RunIds :
         (/\ threads[t].pc = "exit"
          /\ threads'[t].pc # "exit"
          /\ threads[t].last <= 0
          /\ threads[t].cancelled = "no"
          /\ nclicks = 0)
         => (/\ Calls(threads[t]) = 0
             /\ History(agent1) = <<Msg("assistant", threads[t].initial_prompt)>>
             /\ History(agent2) = <<>>
             /\ threads'[t].reported = "completed")]_vars

====
